---- MODULE Spec2Model ----
(***************************************************************************)
(* Model of two entry points of the backend:                               *)
(*   - observe(), the LangFuse context manager of                          *)
(*     backend/tagger/observability.py;                                    *)
(*   - test_agent()/main(), the multi-agent test runner of                 *)
(*     backend/test_simple.py.                                             *)
(* The two share no state; each has its own specification.                 *)
(*                                                                         *)
(* External calls (imports, logfire, the LangFuse client, the wrapped      *)
(* operation, the uv subprocess) are inputs: each either returns or raises *)
(* an exception of class Exception (ImportError is kept apart because the  *)
(* code has a handler of its own for it).                                  *)
(***************************************************************************)
EXTENDS Integers, Sequences, FiniteSets, TLC

VARIABLES
    \* ---- observe() ----
    pc,               \* position in observe()
    session,          \* number of observe() calls started so far
    environ,          \* os.environ: the two variables observe() reads
    has_langfuse,     \* local of observe()
    has_openai,       \* local of observe()
    langfuse_client,  \* local of observe(): None or the client handle
    pending,          \* exception thrown into the generator at the yield
    trace,            \* external calls made by this session, in order
    log,              \* records written to the logger by this session
    paused,           \* seconds spent in time.sleep by this session
    result,           \* what the with-statement's caller observes
    \* ---- test runner ----
    rpc,              \* position in main()
    dir_exists,       \* file system: agent_dir.exists()
    test_exists,      \* file system: test_path.exists()
    idx,              \* position of the for loop in the agents list
    results,          \* dict agent -> bool, in insertion order
    out,              \* status lines printed by test_agent
    launched,         \* subprocess.run calls, with what the child did
    exit_code         \* argument of sys.exit

ovars == <<pc, session, environ, has_langfuse, has_openai, langfuse_client,
           pending, trace, log, paused, result>>
rvars == <<rpc, dir_exists, test_exists, idx, results, out, launched, exit_code>>
vars == <<pc, session, environ, has_langfuse, has_openai, langfuse_client,
          pending, trace, log, paused, result,
          rpc, dir_exists, test_exists, idx, results, out, launched, exit_code>>

\* ------------------------------------------------------------------------
\* Bounds
\* ------------------------------------------------------------------------
MaxSessions == 2

\* ------------------------------------------------------------------------
\* Python values
\* ------------------------------------------------------------------------
None == "<None>"

\* what os.getenv can return: unset, set to the empty string, set to a key
EnvValues == {None, "", "sk-key"}

PyBool_nonnull(v) == v # None

\* bool(v) / truth test of `if v:` for None, strings and object handles
PyBool(v) == v # None /\ v # ""

\* ------------------------------------------------------------------------
\* observe()
\* ------------------------------------------------------------------------
FlushDelay == 10

SetupOutcomes == {"ok", "ImportError", "Exception"}
CallOutcomes == {"ok", "Exception"}
BodyOutcomes == {"return", "raise"}

Ev(c, r) == [call |-> c, r |-> r]

\* leaving the generator: a pending exception thrown in at the yield
\* continues to propagate, otherwise the with-statement completes normally
Leave ==
    /\ pc' = "done"
    /\ result' = IF pending = "raise" THEN "raised_op" ELSE "returned"

\* lines 83-88: both handlers log, reset the client and fall through to
\* the yield of line 92
SetupFailed_propagate(c, r) ==
    IF r = "ImportError"
    THEN /\ trace' = Append(trace, Ev(c, r))
         /\ log' = Append(log, "error:missing_package")
         /\ langfuse_client' = None
         /\ pc' = "yield"
         /\ UNCHANGED result
    ELSE /\ trace' = Append(trace, Ev(c, r))
         /\ langfuse_client' = None
         /\ pc' = "done"
         /\ result' = "raised_setup"
         /\ UNCHANGED log

SetupFailed(c, r) ==
    /\ trace' = Append(trace, Ev(c, r))
    /\ log' = Append(log, IF r = "ImportError" THEN "error:missing_package"
                                               ELSE "error:setup_failed")
    /\ langfuse_client' = None
    /\ pc' = "yield"
    /\ UNCHANGED result

\* lines 30-52: the caller enters `with observe():`
Call(lf, oa) ==
    /\ pc \in {"idle", "done"}
    /\ session < MaxSessions
    /\ session' = session + 1
    /\ environ' = [LANGFUSE_SECRET_KEY |-> lf, OPENAI_API_KEY |-> oa]
    /\ has_langfuse' = PyBool(lf)
    /\ has_openai' = PyBool(oa)
    /\ langfuse_client' = None
    /\ pending' = "none"
    /\ trace' = <<>>
    /\ paused' = 0
    /\ result' = "running"
    /\ IF ~PyBool(lf)
       THEN /\ log' = <<"info:not_configured">>
            /\ pc' = "yield_disabled"
       ELSE /\ log' = IF ~PyBool(oa) THEN <<"warning:no_openai_key">> ELSE <<>>
            /\ pc' = "import"
    /\ UNCHANGED rvars

\* lines 54-55
Import(r) ==
    /\ pc = "import"
    /\ IF r = "ok"
       THEN /\ trace' = Append(trace, Ev("import", r))
            /\ pc' = "configure"
            /\ UNCHANGED <<log, langfuse_client, result>>
       ELSE SetupFailed("import", r)
    /\ UNCHANGED <<session, environ, has_langfuse, has_openai, pending, paused>>
    /\ UNCHANGED rvars

\* lines 58-62
Configure(r) ==
    /\ pc = "configure"
    /\ IF r = "ok"
       THEN /\ trace' = Append(trace, Ev("configure", r))
            /\ pc' = "instrument"
            /\ UNCHANGED <<log, langfuse_client, result>>
       ELSE SetupFailed("configure", r)
    /\ UNCHANGED <<session, environ, has_langfuse, has_openai, pending, paused>>
    /\ UNCHANGED rvars

\* lines 65-66
Instrument(r) ==
    /\ pc = "instrument"
    /\ IF r = "ok"
       THEN /\ trace' = Append(trace, Ev("instrument", r))
            /\ pc' = "get_client"
            /\ UNCHANGED <<log, langfuse_client, result>>
       ELSE SetupFailed("instrument", r)
    /\ UNCHANGED <<session, environ, has_langfuse, has_openai, pending, paused>>
    /\ UNCHANGED rvars

\* lines 69-70: the assignment happens only if get_client() returns
GetClient(r) ==
    /\ pc = "get_client"
    /\ IF r = "ok"
       THEN /\ trace' = Append(trace, Ev("get_client", r))
            /\ langfuse_client' = "client"
            /\ pc' = "auth_check"
            /\ UNCHANGED <<log, result>>
       ELSE SetupFailed("get_client", r)
    /\ UNCHANGED <<session, environ, has_langfuse, has_openai, pending, paused>>
    /\ UNCHANGED rvars

AuthCheck_outer(r) ==
    /\ pc = "auth_check"
    /\ IF r = "ok"
       THEN /\ trace' = Append(trace, Ev("auth_check", r))
            /\ pc' = "yield"
            /\ UNCHANGED <<log, langfuse_client, result>>
       ELSE SetupFailed("auth_check", r)
    /\ UNCHANGED <<session, environ, has_langfuse, has_openai, pending, paused>>
    /\ UNCHANGED rvars

\* lines 73-81: the inner handler catches every Exception, ImportError too
AuthCheck(r) ==
    /\ pc = "auth_check"
    /\ trace' = Append(trace, Ev("auth_check", r))
    /\ log' = IF r = "ok" THEN log ELSE Append(log, "warning:auth_check_failed")
    /\ pc' = "yield"
    /\ UNCHANGED <<langfuse_client, result>>
    /\ UNCHANGED <<session, environ, has_langfuse, has_openai, pending, paused>>
    /\ UNCHANGED rvars

YieldDisabled_fallthrough(b) ==
    /\ pc = "yield_disabled"
    /\ trace' = Append(trace, Ev("yield", b))
    /\ pending' = IF b = "raise" THEN "raise" ELSE "none"
    /\ IF b = "raise"
       THEN /\ pc' = "done"
            /\ result' = "raised_op"
       ELSE /\ pc' = "import"
            /\ UNCHANGED result
    /\ UNCHANGED <<session, environ, has_langfuse, has_openai, langfuse_client,
                   log, paused>>
    /\ UNCHANGED rvars

\* lines 41-42: the wrapped operation runs with no client; `return` ends
\* the generator, an exception thrown in at the yield propagates
YieldDisabled(b) ==
    /\ pc = "yield_disabled"
    /\ trace' = Append(trace, Ev("yield", b))
    /\ pending' = IF b = "raise" THEN "raise" ELSE "none"
    /\ pc' = "done"
    /\ result' = IF b = "raise" THEN "raised_op" ELSE "returned"
    /\ UNCHANGED <<session, environ, has_langfuse, has_openai, langfuse_client,
                   log, paused>>
    /\ UNCHANGED rvars

\* lines 90-95, 111-112: the wrapped operation runs inside try/finally
Yield(b) ==
    /\ pc = "yield"
    /\ trace' = Append(trace, Ev("yield", b))
    /\ pending' = IF b = "raise" THEN "raise" ELSE "none"
    /\ IF PyBool(langfuse_client)
       THEN /\ pc' = "flush"
            /\ UNCHANGED <<log, result>>
       ELSE /\ log' = Append(log, "debug:no_client")
            /\ pc' = "done"
            /\ result' = IF b = "raise" THEN "raised_op" ELSE "returned"
    /\ UNCHANGED <<session, environ, has_langfuse, has_openai, langfuse_client,
                   paused>>
    /\ UNCHANGED rvars

Flush_continue(r) ==
    /\ pc = "flush"
    /\ trace' = Append(trace, Ev("flush", r))
    /\ log' = IF r = "ok" THEN log ELSE Append(log, "error:flush_failed")
    /\ pc' = "shutdown"
    /\ UNCHANGED result
    /\ UNCHANGED <<session, environ, has_langfuse, has_openai, langfuse_client,
                   pending, paused>>
    /\ UNCHANGED rvars

Flush_uncaught(r) ==
    /\ pc = "flush"
    /\ trace' = Append(trace, Ev("flush", r))
    /\ IF r = "ok"
       THEN /\ pc' = "shutdown"
            /\ UNCHANGED <<log, result>>
       ELSE /\ pc' = "done"
            /\ result' = "raised_teardown"
            /\ UNCHANGED log
    /\ UNCHANGED <<session, environ, has_langfuse, has_openai, langfuse_client,
                   pending, paused>>
    /\ UNCHANGED rvars

\* lines 96-98, 109-110
Flush(r) ==
    /\ pc = "flush"
    /\ trace' = Append(trace, Ev("flush", r))
    /\ IF r = "ok"
       THEN /\ pc' = "shutdown"
            /\ UNCHANGED <<log, result>>
       ELSE /\ log' = Append(log, "error:flush_failed")
            /\ Leave
    /\ UNCHANGED <<session, environ, has_langfuse, has_openai, langfuse_client,
                   pending, paused>>
    /\ UNCHANGED rvars

Shutdown_retry(r) ==
    /\ pc = "shutdown"
    /\ trace' = Append(trace, Ev("shutdown", r))
    /\ IF r = "ok"
       THEN /\ pc' = "sleep"
            /\ UNCHANGED <<log, result>>
       ELSE /\ log' = Append(log, "error:flush_failed")
            /\ pc' = "flush"
            /\ UNCHANGED result
    /\ UNCHANGED <<session, environ, has_langfuse, has_openai, langfuse_client,
                   pending, paused>>
    /\ UNCHANGED rvars

\* lines 99, 109-110
Shutdown(r) ==
    /\ pc = "shutdown"
    /\ trace' = Append(trace, Ev("shutdown", r))
    /\ IF r = "ok"
       THEN /\ pc' = "sleep"
            /\ UNCHANGED <<log, result>>
       ELSE /\ log' = Append(log, "error:flush_failed")
            /\ Leave
    /\ UNCHANGED <<session, environ, has_langfuse, has_openai, langfuse_client,
                   pending, paused>>
    /\ UNCHANGED rvars

\* lines 103-108
Sleep ==
    /\ pc = "sleep"
    /\ trace' = Append(trace, Ev("sleep", "ok"))
    /\ paused' = paused + FlushDelay
    /\ log' = Append(log, "info:flushed")
    /\ Leave
    /\ UNCHANGED <<session, environ, has_langfuse, has_openai, langfuse_client,
                   pending>>
    /\ UNCHANGED rvars

\* ------------------------------------------------------------------------
\* test runner
\* ------------------------------------------------------------------------
\* lines 93-99
agents == <<"tagger", "reporter", "charter", "retirement", "planner">>

AgentNames == {agents[i] : i \in 1..Len(agents)}

\* what the `uv run test_simple.py` child does: it exits with a return
\* code, or it is still running when the 120 s timeout expires
ReturnCodes == {0, 1, 2}

ProcOutcomes ==
    {[timeout |-> FALSE, returncode |-> c] : c \in ReturnCodes}
        \cup {[timeout |-> TRUE, returncode |-> 0]}

\* results[agent] = value on an insertion-ordered dict
DictSet(d, k, v) ==
    IF \E i \in 1..Len(d) : d[i].key = k
    THEN [i \in 1..Len(d) |-> IF d[i].key = k THEN [key |-> k, val |-> v] ELSE d[i]]
    ELSE Append(d, [key |-> k, val |-> v])

RECURSIVE CountVal(_, _)
\* sum(1 for r in results.values() if r == v)
CountVal(d, v) ==
    IF d = <<>> THEN 0
    ELSE (IF Head(d).val = v THEN 1 ELSE 0) + CountVal(Tail(d), v)

Ret(ret, tag, ran) == [ret |-> ret, tag |-> tag, ran |-> ran]

test_agent_timeout_as_fail(agent_name, proc) ==
    IF ~dir_exists[agent_name] THEN Ret(FALSE, "SKIP_DIR", FALSE)
    ELSE IF ~test_exists[agent_name] THEN Ret(TRUE, "SKIP_FILE", FALSE)
    ELSE IF proc.timeout THEN Ret(FALSE, "FAIL", TRUE)
    ELSE IF proc.returncode = 0 THEN Ret(TRUE, "PASS", TRUE)
    ELSE Ret(FALSE, "FAIL", TRUE)

\* lines 12-83: the value returned, the status line printed, and whether
\* subprocess.run was called
test_agent(agent_name, proc) ==
    IF ~dir_exists[agent_name] THEN Ret(FALSE, "SKIP_DIR", FALSE)
    ELSE IF ~test_exists[agent_name] THEN Ret(TRUE, "SKIP_FILE", FALSE)
    ELSE IF proc.timeout THEN Ret(FALSE, "TIMEOUT", TRUE)
    ELSE IF proc.returncode = 0 THEN Ret(TRUE, "PASS", TRUE)
    ELSE Ret(FALSE, "FAIL", TRUE)

NextAgent_stop_on_failure(i, success) == IF success THEN i + 1 ELSE Len(agents) + 1

\* line 103: the for loop moves on whatever test_agent returned
NextAgent(i, success) == i + 1

\* lines 87-101
MainStart ==
    /\ rpc = "start"
    /\ rpc' = "loop"
    /\ results' = <<>>
    /\ idx' = 1
    /\ UNCHANGED <<dir_exists, test_exists, out, launched, exit_code>>
    /\ UNCHANGED ovars

\* lines 103-105: one iteration of the loop, test_agent included
RunAgent(proc) ==
    /\ rpc = "loop"
    /\ idx <= Len(agents)
    /\ LET agent == agents[idx]
           r == test_agent(agent, proc)
       IN /\ results' = DictSet(results, agent, r.ret)
          /\ out' = Append(out, [agent |-> agent, tag |-> r.tag])
          /\ launched' = IF r.ran
                         THEN Append(launched, [agent |-> agent, proc |-> proc])
                         ELSE launched
          /\ idx' = NextAgent(idx, r.ret)
    /\ UNCHANGED <<rpc, dir_exists, test_exists, exit_code>>
    /\ UNCHANGED ovars

\* lines 107-131
Summary ==
    /\ rpc = "loop"
    /\ idx > Len(agents)
    /\ LET failed == CountVal(results, FALSE)
       IN exit_code' = IF failed > 0 THEN 1 ELSE 0
    /\ rpc' = "exited"
    /\ UNCHANGED <<dir_exists, test_exists, idx, results, out, launched>>
    /\ UNCHANGED ovars

\* ------------------------------------------------------------------------
\* Specifications
\* ------------------------------------------------------------------------
ObserveIdle ==
    /\ pc = "idle"
    /\ session = 0
    /\ environ = [LANGFUSE_SECRET_KEY |-> None, OPENAI_API_KEY |-> None]
    /\ has_langfuse = FALSE
    /\ has_openai = FALSE
    /\ langfuse_client = None
    /\ pending = "none"
    /\ trace = <<>>
    /\ log = <<>>
    /\ paused = 0
    /\ result = "running"

RunnerIdle ==
    /\ rpc = "start"
    /\ idx = 0
    /\ results = <<>>
    /\ out = <<>>
    /\ launched = <<>>
    /\ exit_code = None

InitObserve ==
    /\ ObserveIdle
    /\ RunnerIdle
    /\ dir_exists = [a \in AgentNames |-> TRUE]
    /\ test_exists = [a \in AgentNames |-> TRUE]

\* the runner starts on any file system: a test file exists only inside
\* an existing directory
InitRunner ==
    /\ ObserveIdle
    /\ RunnerIdle
    /\ dir_exists \in [AgentNames -> BOOLEAN]
    /\ test_exists \in [AgentNames -> BOOLEAN]
    /\ \A a \in AgentNames : test_exists[a] => dir_exists[a]

NextObserve ==
    \/ \E lf \in EnvValues, oa \in EnvValues : Call(lf, oa)
    \/ \E r \in SetupOutcomes : Import(r)
    \/ \E r \in SetupOutcomes : Configure(r)
    \/ \E r \in SetupOutcomes : Instrument(r)
    \/ \E r \in SetupOutcomes : GetClient(r)
    \/ \E r \in SetupOutcomes : AuthCheck(r)
    \/ \E b \in BodyOutcomes : YieldDisabled(b)
    \/ \E b \in BodyOutcomes : Yield(b)
    \/ \E r \in CallOutcomes : Flush(r)
    \/ \E r \in CallOutcomes : Shutdown(r)
    \/ Sleep

NextRunner ==
    \/ MainStart
    \/ \E proc \in ProcOutcomes : RunAgent(proc)
    \/ Summary

SpecObserve == InitObserve /\ [][NextObserve]_vars

SpecRunner == InitRunner /\ [][NextRunner]_vars

\* ------------------------------------------------------------------------
\* Properties of observe()
\* ------------------------------------------------------------------------
SetupSteps == {"import", "configure", "instrument", "get_client"}
TeardownSteps == {"flush", "shutdown", "sleep"}
AfterSetup == {"yield", "flush", "shutdown", "sleep", "done"}

Count(c) == Cardinality({i \in 1..Len(trace) : trace[i].call = c})
Made(c) == \E i \in 1..Len(trace) : trace[i].call = c
Returned(c) == \E i \in 1..Len(trace) : trace[i].call = c /\ trace[i].r = "ok"
Raised(c) == \E i \in 1..Len(trace) : trace[i].call = c /\ trace[i].r # "ok"
SetupRaised == \E c \in SetupSteps : Raised(c)
BodyRaised == \E i \in 1..Len(trace) : trace[i].call = "yield" /\ trace[i].r = "raise"
Logged(m) == \E i \in 1..Len(log) : log[i] = m
\* call c is immediately followed by call d
Then(c, d) ==
    \E i \in 1..(Len(trace) - 1) : trace[i].call = c /\ trace[i + 1].call = d
Absent == environ.LANGFUSE_SECRET_KEY \in {None, ""}

\* C1: a session never yields to the wrapped operation twice, and a
\* finished session has yielded exactly once, whatever the environment,
\* the outcome of setup and the outcome of the wrapped operation.
C1_YieldExactlyOnce ==
    /\ Count("yield") <= 1
    /\ pc = "done" => Count("yield") = 1

C1_Witness ==
    /\ pc = "done"
    /\ SetupRaised
    /\ BodyRaised
    /\ Count("yield") = 1

\* C2 as stated: with a client, teardown calls flush, then shutdown, then
\* pauses 10 seconds, also when flush raises.
C2_PauseAlwaysFollows ==
    (pc = "done" /\ langfuse_client # None) =>
        /\ Then("yield", "flush")
        /\ Then("flush", "shutdown")
        /\ Made("sleep")
        /\ paused = FlushDelay

\* C2 amended: with a client, teardown calls flush first and exactly once;
\* shutdown is called, right after flush, exactly when flush returned; the
\* 10-second pause happens, right after shutdown, exactly when shutdown
\* returned; a flush or shutdown that raises ends teardown, with no pause.
C2_FlushThenShutdownThenPause ==
    /\ (Made("shutdown") \/ Made("sleep")) => Then("flush", "shutdown")
    /\ Made("sleep") => Then("shutdown", "sleep")
    /\ (pc = "done" /\ langfuse_client # None) =>
        /\ Count("flush") = 1
        /\ Then("yield", "flush")
        /\ Made("shutdown") <=> Returned("flush")
        /\ Made("sleep") <=> Returned("shutdown")
        /\ paused = IF Made("sleep") THEN FlushDelay ELSE 0

C2_Witness ==
    /\ pc = "done"
    /\ langfuse_client # None
    /\ Raised("flush")
    /\ ~Made("shutdown")
    /\ paused = 0

\* C5: nothing escapes observe() before it finishes; when it finishes, the
\* caller sees the wrapped operation's exception if it raised one and a
\* normal completion otherwise; with a client, teardown has run before the
\* exception propagates; a flush or shutdown that raises is logged.
C5_OnlyBodyExceptionEscapes ==
    /\ pc # "done" => result = "running"
    /\ pc = "done" => result = IF BodyRaised THEN "raised_op" ELSE "returned"
    /\ (pc = "done" /\ BodyRaised /\ langfuse_client # None) => Then("yield", "flush")
    /\ (Raised("flush") \/ Raised("shutdown")) => Logged("error:flush_failed")

C5_Witness ==
    /\ pc = "done"
    /\ BodyRaised
    /\ Raised("flush")
    /\ result = "raised_op"

\* C6: when LANGFUSE_SECRET_KEY is unset or empty, the only external call
\* of the session is the wrapped operation: no import, instrumentation,
\* get_client, flush, shutdown or pause, also when the operation raises.
C6_AbsentKeyNoTelemetry ==
    (pc # "idle" /\ Absent) =>
        /\ \A i \in 1..Len(trace) : trace[i].call = "yield"
        /\ langfuse_client = None
        /\ paused = 0

C6_Witness ==
    /\ pc = "done"
    /\ environ.LANGFUSE_SECRET_KEY = ""
    /\ BodyRaised

\* C7: when import, configure, instrument or get_client raises, the
\* exception does not reach the caller, the session still yields once, and
\* teardown makes no flush, shutdown or pause.
C7_SetupFailureIsolated ==
    SetupRaised =>
        /\ result \in {"running", "returned", "raised_op"}
        /\ pc \in {"yield", "done"}
        /\ pc = "done" => Count("yield") = 1
        /\ \A c \in TeardownSteps : ~Made(c)
        /\ paused = 0

C7_Witness ==
    /\ pc = "done"
    /\ Raised("get_client")
    /\ Count("yield") = 1

\* C9: a session flushes the client at most once and shuts it down at
\* most once.
C9_FlushAtMostOnce ==
    /\ Count("flush") <= 1
    /\ Count("shutdown") <= 1

C9_Witness ==
    /\ pc = "done"
    /\ BodyRaised
    /\ Raised("shutdown")
    /\ Count("flush") = 1
    /\ Count("shutdown") = 1

\* C10: a failed auth_check leaves the client in place: the wrapped
\* operation runs and teardown flushes (and shuts down if flush returned);
\* after setup the session has no client exactly when import, configure,
\* instrument or get_client raised.
C10_AuthFailureKeepsClient ==
    /\ Raised("auth_check") =>
        /\ langfuse_client = "client"
        /\ Logged("warning:auth_check_failed")
        /\ pc = "done" =>
            /\ Count("yield") = 1
            /\ Made("flush")
            /\ Returned("flush") => Made("shutdown")
    /\ (has_langfuse /\ pc \in AfterSetup) =>
        (langfuse_client = None <=> SetupRaised)

C10_Witness ==
    /\ pc = "done"
    /\ Raised("auth_check")
    /\ Made("yield")
    /\ Returned("flush")
    /\ Made("shutdown")

\* ------------------------------------------------------------------------
\* Properties of the test runner
\* ------------------------------------------------------------------------
Lookup(d, k) == d[CHOOSE i \in 1..Len(d) : d[i].key = k].val
Tested(a) == \E i \in 1..Len(out) : out[i].agent = a
TagOf(a) == out[CHOOSE i \in 1..Len(out) : out[i].agent = a].tag
Launches(a) == {i \in 1..Len(launched) : launched[i].agent = a}
ProcFailed(p) == p.timeout \/ p.returncode # 0

\* C3 as stated: an agent whose directory is missing is recorded as a
\* success and no subprocess is launched for it.
C3_MissingDirIsSuccess ==
    \A a \in AgentNames :
        (Tested(a) /\ ~dir_exists[a]) =>
            /\ Lookup(results, a) = TRUE
            /\ Launches(a) = {}

\* C4 as stated: the exit code is 1 exactly when some agent's subprocess
\* timed out or exited non-zero, and 0 when every agent passed or was
\* skipped.
C4_ExitCodeIffFailed ==
    rpc = "exited" =>
        /\ exit_code \in {0, 1}
        /\ exit_code = 1 <=>
             \E i \in 1..Len(launched) : ProcFailed(launched[i].proc)

\* C8: the agents are tested in list order, each once, whatever the
\* earlier outcomes; a timeout is recorded as a failure under its own
\* status line, a non-zero exit as a failure under another, and main()
\* exits only after all five.
C8_AllAgentsInOrder ==
    /\ Len(out) <= Len(agents)
    /\ \A i \in 1..Len(out) : out[i].agent = agents[i]
    /\ Len(results) = Len(out)
    /\ \A i \in 1..Len(results) : results[i].key = agents[i]
    /\ \A a \in AgentNames : Cardinality(Launches(a)) <= 1
    /\ \A i \in 1..Len(launched) :
          LET l == launched[i]
          IN /\ Tested(l.agent)
             /\ l.proc.timeout =>
                  TagOf(l.agent) = "TIMEOUT" /\ Lookup(results, l.agent) = FALSE
             /\ (~l.proc.timeout /\ l.proc.returncode # 0) =>
                  TagOf(l.agent) = "FAIL" /\ Lookup(results, l.agent) = FALSE
    /\ rpc = "exited" => Len(out) = Len(agents)

C8_Witness ==
    /\ rpc = "exited"
    /\ Len(out) = Len(agents)
    /\ Len(launched) = Len(agents)
    /\ launched[1].proc.timeout
    /\ launched[2].proc.returncode # 0
    /\ Lookup(results, agents[1]) = FALSE
    /\ Lookup(results, agents[Len(agents)]) = TRUE

====
